---- MODULE Spec2Model ----
(***************************************************************************)
(* Content fingerprint and similarity index of tagistry:                   *)
(*   src/model/src/model.py     ImageSimilarityModel (the store, the query)*)
(*   src/model/src/dataset.py   SimilarImagePairsDataset (the pair miner)  *)
(*   src/model/src/training.py  train_model, add_new_images_and_retrain    *)
(*   src/model/src/utils.py     load_model_weights                         *)
(*                                                                         *)
(* Python dicts keep insertion order and assignment to an existing key     *)
(* keeps the key's position, so a dict is modelled as a sequence of        *)
(* <<key, value>> pairs.  Tensors are modelled exactly: a projected        *)
(* feature vector is an integer vector, and a tensor divided by a norm is  *)
(* the pair (num, den2) standing for num / sqrt(den2).                     *)
(***************************************************************************)
EXTENDS Integers, Sequences, FiniteSets, TLC

\* ---- bounds of the model ------------------------------------------------
NumKeys == 2      \* image paths 1..NumKeys
MaxTopK == 2      \* top_k ranges over 0..MaxTopK
MaxCand == 2      \* longest candidate list handed to the pair miner
MaxFaults == 1    \* environment faults in one run: unusable files, failed writes
MaxTrainings == 1 \* runs of train_model or add_new_images_and_retrain in one run

\* ---- program constants --------------------------------------------------
PosPerAnchor == 3
NegPerAnchor == 3

ImagePaths == 1..NumKeys

VARIABLES
    image_database,   \* self.image_database: [embeddings, hashes, paths]
    projection,       \* self.projection: the parameter value in use
    disk,             \* the bytes of the file at database_path, <<>> if none
    last,             \* the last call: its arguments and how it ended
    faults,           \* number of environment faults so far
    trainings         \* number of training runs so far

vars == <<image_database, projection, disk, last, faults, trainings>>

\* ---- Python dict and list operations ------------------------------------
DictKeys(d) == {d[i][1] : i \in DOMAIN d}

DictHas(d, k) == k \in DictKeys(d)

DictGet(d, k) == d[CHOOSE i \in DOMAIN d : d[i][1] = k][2]

\* d[k] = v
DictSet(d, k, v) ==
    IF DictHas(d, k)
    THEN [i \in DOMAIN d |-> IF d[i][1] = k THEN <<k, v>> ELSE d[i]]
    ELSE Append(d, <<k, v>>)

Range(s) == {s[i] : i \in DOMAIN s}

Min(a, b) == IF a < b THEN a ELSE b

Max(a, b) == IF a < b THEN b ELSE a

\* s[lo:hi] with Python's treatment of negative and out-of-range indices
PySlice(s, lo, hi) ==
    LET n == Len(s)
        clamp(i) == IF i < 0 THEN Max(0, n + i) ELSE Min(i, n)
    IN  SubSeq(s, clamp(lo) + 1, clamp(hi))

\* ---- tensors ------------------------------------------------------------
Dot(u, v) == u[1] * v[1] + u[2] * v[2]

\* CLIPModel.get_image_features: the frozen base model, a function of the pixels
\* (one row per decoded pixel content the model distinguishes)
FeatureTable == << <<1, 0>>, <<0, 1>> >>

Pixels == DOMAIN FeatureTable

Features(p) == FeatureTable[p]

\* What a file at an image path can hold when a call reads it.  "rgb": every
\* step works.  "cmyk": Image.open works, the PNG re-encoding of
\* get_image_hash raises, the CLIP processor converts it.  "odd": it hashes,
\* the processor raises.  Corrupt: Image.open raises.
Corrupt == [pix |-> 0, kind |-> "corrupt"]

Images ==
    [pix : Pixels, kind : {"rgb"}] \cup [pix : {1}, kind : {"cmyk", "odd"}]
    \cup {Corrupt}

\* nn.Linear(512, 512): y = W x + b, for each parameter value
\* (one row per parameter value the model distinguishes)
\* The last row is the state dict of zeros, which no initialisation gives
\* and only an assignment to the parameters can set.
ProjTable ==
    << [W |-> << <<1, 0>>, <<0, 1>> >>, b |-> <<0, 0>>],
       [W |-> << <<1, 1>>, <<-1, 1>> >>, b |-> <<1, 0>>],
       [W |-> << <<0, 0>>, <<0, 0>> >>, b |-> <<0, 0>>] >>

Linear(proj, x) ==
    LET p == ProjTable[proj]
    IN  <<Dot(p.W[1], x) + p.b[1], Dot(p.W[2], x) + p.b[2]>>

\* the values the parameters of model.projection can be given
StateDicts == DOMAIN ProjTable

\* The parameter values nn.Linear initialises a projection with:
\* no image is projected to the zero vector.
ProjIds ==
    {proj \in StateDicts :
        \A p \in Pixels :
            Dot(Linear(proj, Features(p)), Linear(proj, Features(p))) > 0}

\* image_features / image_features.norm(dim=-1, keepdim=True)
Normalize(y) == [num |-> y, den2 |-> Dot(y, y)]

\* get_image_embedding; raises for a file the processor rejects
EmbeddingRaises(image) == image.kind \in {"corrupt", "odd"}

\* variant: the projected features are returned as they are
get_image_embedding_Unnormalized(proj, image) ==
    [num |-> Linear(proj, Features(image.pix)), den2 |-> 1]

get_image_embedding(proj, image) == Normalize(Linear(proj, Features(image.pix)))

\* get_image_hash: sha256 of the PNG re-encoding, a function of the pixels
HashRaises(image) == image.kind \in {"corrupt", "cmyk"}

get_image_hash(image) == <<"sha256", image.pix>>

\* torch.matmul(a, b.T).item(): the real number n / sqrt(d2)
MatMul(a, b) == [n |-> Dot(a.num, b.num), d2 |-> a.den2 * b.den2]

Sgn(x) == IF x < 0 THEN -1 ELSE IF x = 0 THEN 0 ELSE 1

\* s >= t as real numbers
ScoreGeq(s, t) == Sgn(s.n) * s.n * s.n * t.d2 >= Sgn(t.n) * t.n * t.n * s.d2

ScoreEq(s, t) == ScoreGeq(s, t) /\ ScoreGeq(t, s)

\* list.sort(key=lambda x: x[1], reverse=True): stable, descending
RECURSIVE SortByScoreDesc(_)
SortByScoreDesc(s) ==
    IF s = <<>> THEN <<>>
    ELSE LET n == Len(s)
             r == SortByScoreDesc(SubSeq(s, 1, n - 1))
             x == s[n]
             m == Cardinality({i \in DOMAIN r : ScoreGeq(r[i][2], x[2])})
         IN  SubSeq(r, 1, m) \o <<x>> \o SubSeq(r, m + 1, Len(r))

\* ---- persistence --------------------------------------------------------
EmptyDatabase == [embeddings |-> <<>>, hashes |-> <<>>, paths |-> <<>>]

\* variant: the embeddings are left out of the file
Pickle_NoEmbeddings(db) ==
    << <<"embeddings", <<>>>>, <<"hashes", db.hashes>>, <<"paths", db.paths>> >>

\* pickle.dump(self.image_database, f): the items of the dict, in dict order
Pickle(db) ==
    << <<"embeddings", db.embeddings>>, <<"hashes", db.hashes>>,
       <<"paths", db.paths>> >>

\* pickle.load(f): the dict of the pickled items
Unpickle(bytes) ==
    LET value(name) == bytes[CHOOSE i \in DOMAIN bytes : bytes[i][1] = name][2]
    IN  [embeddings |-> value("embeddings"), hashes |-> value("hashes"),
         paths |-> value("paths")]

\* _load_database
LoadDatabase(file) == IF file = <<>> THEN EmptyDatabase ELSE Unpickle(file)

\* ---- the environment -----------------------------------------------------
\* the files of a sequence that some step of the code cannot use
FaultsIn(images) ==
    Cardinality({i \in DOMAIN images : images[i].kind # "rgb"})

\* A run is explored as calls that write followed by one call that reads:
\* find_similar_images and _generate_pairs change nothing, so every store
\* state and every result they can see is reached this way.
ReadOps == {"find_similar_images", "generate_pairs"}

Running == last.op \notin ReadOps

\* a call during which n things go wrong
Fault(n) == faults + n <= MaxFaults /\ faults' = faults + n

\* one more training run
Training == trainings < MaxTrainings /\ trainings' = trainings + 1

\* ---- add_image ----------------------------------------------------------
OpenRaises(image) == image.kind = "corrupt"

\* Whether the try block of add_image runs to save_database
AddImageReachesSave(image, compute_embedding) ==
    /\ ~OpenRaises(image)
    /\ ~HashRaises(image)
    /\ ~(compute_embedding /\ EmbeddingRaises(image))

\* variant: the path is appended whether or not the list holds it
StoreHash_Appending(db, image_path, image_hash) ==
    [db EXCEPT !.hashes = DictSet(@, image_path, image_hash),
               !.paths = Append(@, image_path)]

\* variant: an updated key moves to the end of the hashes map
StoreHash_Reinserting(db, image_path, image_hash) ==
    [db EXCEPT !.hashes = Append(SelectSeq(@, LAMBDA e : e[1] # image_path),
                                 <<image_path, image_hash>>),
               !.paths = IF image_path \in Range(@) THEN @
                         ELSE Append(@, image_path)]

\* variant: an updated key moves to the end of the paths list
StoreHash_MovingPath(db, image_path, image_hash) ==
    [db EXCEPT !.hashes = DictSet(@, image_path, image_hash),
               !.paths = Append(SelectSeq(@, LAMBDA k : k # image_path),
                                image_path)]

\* self.image_database["hashes"][image_path] = image_hash
\* if image_path not in paths: paths.append(image_path)
StoreHash(db, image_path, image_hash) ==
    [db EXCEPT !.hashes = DictSet(@, image_path, image_hash),
               !.paths = IF image_path \in Range(@) THEN @
                         ELSE Append(@, image_path)]

\* variant: the first embedding stored under a key is kept
StoreEmbedding_KeepFirst(db, image_path, embedding) ==
    IF DictHas(db.embeddings, image_path) THEN db
    ELSE [db EXCEPT !.embeddings = Append(@, <<image_path, embedding>>)]

\* self.image_database["embeddings"][path] = embedding
StoreEmbedding(db, image_path, embedding) ==
    [db EXCEPT !.embeddings = DictSet(@, image_path, embedding)]

\* The database when add_image returns: the try block runs as far as it gets
\* and the except clause undoes nothing.
AddImageDb(db, proj, image_path, image, compute_embedding) ==
    IF OpenRaises(image) \/ HashRaises(image) THEN db
    ELSE LET d1 == StoreHash(db, image_path, get_image_hash(image))
         IN  IF compute_embedding /\ ~EmbeddingRaises(image)
             THEN StoreEmbedding(d1, image_path, get_image_embedding(proj, image))
             ELSE d1

AddImage(image_path, image, compute_embedding, save_ok) ==
    LET db == AddImageDb(image_database, projection, image_path, image,
                         compute_embedding)
        saved == AddImageReachesSave(image, compute_embedding) /\ save_ok
    IN  /\ Running
        /\ save_ok \/ AddImageReachesSave(image, compute_embedding)
        /\ UNCHANGED trainings
        /\ Fault(FaultsIn(<<image>>) + (IF save_ok THEN 0 ELSE 1))
        /\ image_database' = db
        /\ disk' = IF saved THEN Pickle(db) ELSE disk
        /\ last' = [op |-> "add_image",
                    existed |-> image_path \in Range(image_database.paths),
                    returned |-> saved]
        /\ UNCHANGED projection

\* ---- find_similar_images ------------------------------------------------
\* the score 1.0
One == [n |-> 1, d2 |-> 1]

\* for path, hash_val in hashes.items(): if hash_val == query_hash: append
RECURSIVE ExactMatches(_, _)
ExactMatches(hashes, query_hash) ==
    IF hashes = <<>> THEN <<>>
    ELSE (IF hashes[1][2] = query_hash
          THEN << <<hashes[1][1], One>> >> ELSE <<>>)
         \o ExactMatches(Tail(hashes), query_hash)

\* for path, embedding in embeddings.items(): append((path, sim_score))
Similarities(embeddings, query_embedding) ==
    [i \in DOMAIN embeddings |->
        <<embeddings[i][1], MatMul(query_embedding, embeddings[i][2])>>]

\* variant: the first top_k similarities, unsorted
FindSimilar_Unsorted(db, query_embedding, top_k) ==
    PySlice(Similarities(db.embeddings, query_embedding), 0, top_k)

\* similarities.sort(key=..., reverse=True); return similarities[:top_k]
FindSimilar(db, query_embedding, top_k) ==
    PySlice(SortByScoreDesc(Similarities(db.embeddings, query_embedding)),
            0, top_k)

\* variant: the exact matches are cut to top_k
find_similar_images_ExactTopK(db, proj, query_image, top_k) ==
    LET query_embedding == get_image_embedding(proj, query_image)
        query_hash == get_image_hash(query_image)
        exact_matches == ExactMatches(db.hashes, query_hash)
    IN  IF exact_matches # <<>>
        THEN [branch |-> "exact", items |-> PySlice(exact_matches, 0, top_k)]
        ELSE [branch |-> "ranked",
              items |-> FindSimilar(db, query_embedding, top_k)]

\* variant: the ranking is padded with the stored paths that have no
\* embedding, at score 0
find_similar_images_Padded(db, proj, query_image, top_k) ==
    LET query_embedding == get_image_embedding(proj, query_image)
        query_hash == get_image_hash(query_image)
        exact_matches == ExactMatches(db.hashes, query_hash)
        bare == SelectSeq(db.paths, LAMBDA k : ~DictHas(db.embeddings, k))
        padding == [i \in DOMAIN bare |-> <<bare[i], [n |-> 0, d2 |-> 1]>>]
    IN  IF exact_matches # <<>>
        THEN [branch |-> "exact", items |-> exact_matches]
        ELSE [branch |-> "ranked",
              items |-> PySlice(FindSimilar(db, query_embedding, Len(db.embeddings))
                                \o padding, 0, top_k)]

\* variant: a ranking with nothing in it is returned as one placeholder entry
find_similar_images_Placeholder(db, proj, query_image, top_k) ==
    LET query_embedding == get_image_embedding(proj, query_image)
        query_hash == get_image_hash(query_image)
        exact_matches == ExactMatches(db.hashes, query_hash)
        ranked == FindSimilar(db, query_embedding, top_k)
    IN  IF exact_matches # <<>>
        THEN [branch |-> "exact", items |-> exact_matches]
        ELSE [branch |-> "ranked",
              items |-> IF ranked = <<>> THEN << <<0, [n |-> 0, d2 |-> 1]>> >>
                        ELSE ranked]

\* The value find_similar_images returns, tagged with the branch it left by.
find_similar_images(db, proj, query_image, top_k) ==
    LET query_embedding == get_image_embedding(proj, query_image)
        query_hash == get_image_hash(query_image)
        exact_matches == ExactMatches(db.hashes, query_hash)
    IN  IF exact_matches # <<>>
        THEN [branch |-> "exact", items |-> exact_matches]
        ELSE [branch |-> "ranked",
              items |-> FindSimilar(db, query_embedding, top_k)]

\* The query image is an opened PIL image; the call raises when the processor
\* or the PNG encoder rejects it.
QueryRaises(query_image) ==
    EmbeddingRaises(query_image) \/ HashRaises(query_image)

\* variant: the query stores the embedding it computed for the query image
Query_Caching(query_image, top_k) ==
    /\ Running
    /\ ~QueryRaises(query_image)
    /\ last' = [op |-> "find_similar_images", raised |-> FALSE,
                query_image |-> query_image, top_k |-> top_k]
    /\ image_database'
         = StoreEmbedding(image_database, 1,
                          get_image_embedding(projection, query_image))
    /\ UNCHANGED <<projection, disk, faults, trainings>>

Query(query_image, top_k) ==
    /\ Running
    /\ last' = IF QueryRaises(query_image)
               THEN [op |-> "find_similar_images", raised |-> TRUE]
               ELSE [op |-> "find_similar_images", raised |-> FALSE,
                     query_image |-> query_image, top_k |-> top_k]
    /\ UNCHANGED <<image_database, projection, disk, faults, trainings>>

\* ---- SimilarImagePairsDataset._generate_pairs ----------------------------
\* dataset.py imports Dataset and Image and nothing else (lines 1-2), so the
\* name torch in line 28 is not bound: the first similarity the inner loop
\* comes to compute raises NameError.  A result is the record of whether the
\* code raised and of the value it built otherwise.

\* variant: the inner loop also looks up a candidate that has no embedding,
\* and raises on it
OtherSimilarities_Unchecked(embeddings, image_paths, i) ==
    [raised |-> \E j \in DOMAIN image_paths : j # i, similarities |-> <<>>]

\* the inner loop over j (lines 22-29): it skips position i and the paths
\* without an embedding, and raises at line 28 for the first one it keeps
OtherSimilarities(embeddings, image_paths, i) ==
    [raised |-> \E j \in DOMAIN image_paths :
                    j # i /\ DictHas(embeddings, image_paths[j]),
     similarities |-> <<>>]

\* the pairs one anchor position contributes (lines 16-39)
AnchorPairs(embeddings, image_paths, i) ==
    IF ~DictHas(embeddings, image_paths[i])
    THEN [raised |-> FALSE, pairs |-> <<>>]
    ELSE LET inner == OtherSimilarities(embeddings, image_paths, i)
             similarities == SortByScoreDesc(inner.similarities)
             top == PySlice(similarities, 0, PosPerAnchor)
             bottom == PySlice(similarities, 0 - NegPerAnchor, Len(similarities))
         IN  IF inner.raised THEN [raised |-> TRUE, pairs |-> <<>>]
             ELSE [raised |-> FALSE,
                   pairs |->
                     [n \in DOMAIN top |-> <<image_paths[i], top[n][1], 1>>]
                     \o [n \in DOMAIN bottom |->
                            <<image_paths[i], bottom[n][1], 0>>]]

\* the outer loop from position i on (lines 15-41)
RECURSIVE PairsFrom(_, _, _)
PairsFrom(embeddings, image_paths, i) ==
    IF i > Len(image_paths) THEN [raised |-> FALSE, pairs |-> <<>>]
    ELSE LET anchor == AnchorPairs(embeddings, image_paths, i)
             rest == PairsFrom(embeddings, image_paths, i + 1)
         IN  IF anchor.raised THEN anchor
             ELSE [raised |-> rest.raised,
                   pairs |-> IF rest.raised THEN <<>>
                             ELSE anchor.pairs \o rest.pairs]

generate_pairs(db, image_paths) == PairsFrom(db.embeddings, image_paths, 1)

\* SimilarImagePairsDataset(model, image_paths): builds self.pairs, reads only
GeneratePairs(image_paths) ==
    /\ Running
    /\ last' = [op |-> "generate_pairs", image_paths |-> image_paths]
    /\ UNCHANGED <<image_database, projection, disk, faults, trainings>>

\* ---- train_model --------------------------------------------------------
\* training.py 12-17 and 98-103: add_image for each listed file, in order.
\* The result is the database and the disk after the last call.
RECURSIVE AddAll(_, _, _, _, _, _, _)
AddAll(db, file, proj, image_paths, files, compute_embedding, save_ok) ==
    IF image_paths = <<>> THEN [db |-> db, disk |-> file]
    ELSE LET image == files[image_paths[1]]
             d1 == AddImageDb(db, proj, image_paths[1], image, compute_embedding)
             saved == AddImageReachesSave(image, compute_embedding) /\ save_ok
         IN  AddAll(d1, IF saved THEN Pickle(d1) ELSE file, proj,
                    Tail(image_paths), files, compute_embedding, save_ok)

\* lines 20-26 and 77-83: Image.open, get_image_embedding, store; an exception
\* skips the path
RECURSIVE EmbedAll(_, _, _, _)
EmbedAll(db, proj, image_paths, files) ==
    IF image_paths = <<>> THEN db
    ELSE LET image == files[image_paths[1]]
             d1 == IF OpenRaises(image) \/ EmbeddingRaises(image) THEN db
                   ELSE StoreEmbedding(db, image_paths[1],
                                       get_image_embedding(proj, image))
         IN  EmbedAll(d1, proj, Tail(image_paths), files)

\* a call that reads these files, with or without a working disk, within the
\* fault budget
CallFaults(images, save_ok) ==
    Fault(FaultsIn(images) + (IF save_ok THEN 0 ELSE 1))

\* the files of a listing, in listing order
FilesRead(image_paths, files) ==
    [i \in DOMAIN image_paths |-> files[image_paths[i]]]

\* How far dataset and dataloader get (training.py 31-32 and 113-114, with
\* the default num_epochs).  Building the dataset raises NameError as soon as
\* two listed paths have an embedding; otherwise the dataset is empty, and
\* either DataLoader(shuffle=True) rejects it or the first epoch ends in the
\* division by len(dataloader) = 0 (lines 73, 152).  No batch is ever drawn
\* and no optimizer step is ever taken.
Mining(db, image_paths) ==
    IF generate_pairs(db, image_paths).raised THEN "raised" ELSE "empty"

\* train_model(model, image_folder) with the default num_epochs; image_paths
\* is the os.walk listing and files what each listed path holds.  The call
\* ends in an exception: at line 28 when the disk is down, else at 31-73.
TrainModel(image_paths, files, save_ok) ==
    LET added == AddAll(image_database, disk, projection, image_paths, files,
                        FALSE, save_ok)
        d2 == EmbedAll(added.db, projection, image_paths, files)
    IN  /\ Running
        /\ Training
        /\ CallFaults(FilesRead(image_paths, files), save_ok)
        /\ image_database' = d2
        /\ disk' = IF save_ok THEN Pickle(d2) ELSE disk
        /\ UNCHANGED projection
        /\ last' = [op |-> "train_model", returned |-> FALSE,
                    mined |-> IF save_ok THEN Mining(d2, image_paths)
                              ELSE "none"]

\* ---- add_new_images_and_retrain -----------------------------------------
\* lines 98-103: the paths add_image returned True for
RECURSIVE NewImagePaths(_, _, _)
NewImagePaths(image_paths, files, save_ok) ==
    IF image_paths = <<>> THEN <<>>
    ELSE (IF AddImageReachesSave(files[image_paths[1]], TRUE) /\ save_ok
          THEN <<image_paths[1]>> ELSE <<>>)
         \o NewImagePaths(Tail(image_paths), files, save_ok)

\* image_paths is the os.walk listing of the new folder and files what each
\* listed path holds.  With no image added the call returns; with one added
\* it ends in an exception at lines 113-152.
AddNewImagesAndRetrain(image_paths, files, save_ok) ==
    LET added == AddAll(image_database, disk, projection, image_paths, files,
                        TRUE, save_ok)
        new_image_paths == NewImagePaths(image_paths, files, save_ok)
        all_paths == added.db.paths
    IN  /\ Running
        /\ Training
        /\ CallFaults(FilesRead(image_paths, files), save_ok)
        /\ image_database' = added.db
        /\ disk' = added.disk
        /\ UNCHANGED projection
        /\ last' = [op |-> "add_new_images_and_retrain",
                    returned |-> new_image_paths = <<>>,
                    mined |-> IF new_image_paths = <<>> THEN "none"
                              ELSE Mining(added.db, all_paths)]

\* ---- construction and weights -------------------------------------------
\* ImageSimilarityModel(database_path=...) on the same database file:
\* _load_database, and a freshly initialised nn.Linear
Construct(fresh_proj) ==
    /\ Running
    /\ image_database' = LoadDatabase(disk)
    /\ projection' = fresh_proj
    /\ last' = [op |-> "init"]
    /\ UNCHANGED <<disk, faults, trainings>>

\* load_model_weights(model, weights_path): utils.py imports os, matplotlib
\* and Image and nothing else (lines 1-3), so torch.load in line 42 raises
\* NameError when the file exists; the projection is as it was either way.
LoadModelWeights(exists) ==
    /\ Running
    /\ last' = [op |-> "load_model_weights", raised |-> exists]
    /\ UNCHANGED <<image_database, projection, disk, faults, trainings>>

\* ---- the specification --------------------------------------------------
\* os.walk lists the files of a folder in one fixed order, and the image
\* paths are numbered in that order: a listing is an ascending sequence
RECURSIVE Ascending(_)
Ascending(S) ==
    IF S = {} THEN <<>>
    ELSE LET k == CHOOSE x \in S : \A y \in S : x <= y
         IN  <<k>> \o Ascending(S \ {k})

Listings == {Ascending(S) : S \in SUBSET ImagePaths}

\* candidate lists a caller may hand to SimilarImagePairsDataset
RECURSIVE CandidateLists(_)
CandidateLists(n) ==
    IF n = 0 THEN {<<>>}
    ELSE LET shorter == CandidateLists(n - 1)
         IN  shorter \cup
             {Append(s, k) : s \in {t \in shorter : Len(t) = n - 1},
                             k \in ImagePaths}

Init ==
    /\ image_database = EmptyDatabase
    /\ projection \in ProjIds
    /\ disk = <<>>
    /\ last = [op |-> "init"]
    /\ faults = 0
    /\ trainings = 0

Next ==
    \/ \E image_path \in ImagePaths, image \in Images,
          compute_embedding \in BOOLEAN, save_ok \in BOOLEAN :
          AddImage(image_path, image, compute_embedding, save_ok)
    \/ \E query_image \in Images \ {Corrupt}, top_k \in 0..MaxTopK :
          Query(query_image, top_k)
    \/ \E image_paths \in CandidateLists(MaxCand) : GeneratePairs(image_paths)
    \/ \E image_paths \in Listings :
          \E files \in [Range(image_paths) -> Images], save_ok \in BOOLEAN :
             TrainModel(image_paths, files, save_ok)
    \/ \E image_paths \in Listings :
          \E files \in [Range(image_paths) -> Images], save_ok \in BOOLEAN :
             AddNewImagesAndRetrain(image_paths, files, save_ok)
    \/ \E fresh_proj \in ProjIds : Construct(fresh_proj)
    \/ \E exists \in BOOLEAN : LoadModelWeights(exists)

Spec == Init /\ [][Next]_vars

\* ---- add_image under any projection weights ------------------------------
\* model.projection is a public nn.Linear: its owner may set its parameters
\* to any state dict, the one of zeros included, before calling add_image.
WeightsInit ==
    /\ image_database = EmptyDatabase
    /\ projection \in StateDicts
    /\ disk = <<>>
    /\ last = [op |-> "init"]
    /\ faults = 0
    /\ trainings = 0

WeightsNext ==
    \E image_path \in ImagePaths, image \in Images,
       compute_embedding \in BOOLEAN, save_ok \in BOOLEAN :
       AddImage(image_path, image, compute_embedding, save_ok)

WeightsSpec == WeightsInit /\ [][WeightsNext]_vars

\* ---- the training loop of train_model ------------------------------------
\* Lines 38-85 of training.py taken by themselves, from the state in which
\* lines 10-36 have stored the embeddings of the listed files and a
\* dataloader of batches exists.  (A call of train_model does not get this
\* far: see Mining.)  A batch is one pair <<path1, path2, label>>; the
\* dataloader gives its batches in the same order in every epoch.
NumEpochs == 2

MaxBatches == 2

FitPaths == <<1, 2>>

Batches ==
    {batch \in Range(FitPaths) \X Range(FitPaths) \X {0, 1} :
        batch[1] # batch[2]}

Dataloaders ==
    UNION {[1..n -> Batches] : n \in 1..MaxBatches}

\* lines 46-61: both images through CLIP, projection and normalisation, the
\* sum of products, BCEWithLogitsLoss; a 0/0 in the normalisation makes the
\* similarity and the loss NaN
LossIsFinite(proj, files, batch) ==
    MatMul(get_image_embedding(proj, files[batch[1]]),
           get_image_embedding(proj, files[batch[2]])).d2 > 0

\* a path an earlier add_image call stored from outside the image folder,
\* and the file it holds
StoredBefore == NumKeys + 1

StoredBeforeImage == [pix |-> 1, kind |-> "rgb"]

\* the stores train_model can be called on: the empty one, or one that holds
\* StoredBefore with the embedding the projection gave it
FitStores(proj) ==
    {EmptyDatabase,
     AddImageDb(EmptyDatabase, proj, StoredBefore, StoredBeforeImage, TRUE)}

FitInit ==
    \E files \in [Range(FitPaths) -> [pix : Pixels, kind : {"rgb"}]],
       dataloader \in Dataloaders :
       /\ projection \in ProjIds
       /\ \E store \in FitStores(projection) :
             image_database
               = EmbedAll(AddAll(store, <<>>, projection, FitPaths,
                                 files, FALSE, TRUE).db,
                          projection, FitPaths, files)
       /\ disk = Pickle(image_database)
       /\ last = [op |-> "fit", files |-> files, dataloader |-> dataloader,
                  epoch |-> 0, batch_idx |-> 0, loss |-> "none",
                  raised |-> FALSE, returned |-> FALSE]
       /\ faults = 0
       /\ trainings = 1

\* variant: every batch is followed by the refresh of the stored embeddings
FitBatch_Refreshing(state_dict) ==
    LET last_batch == last.batch_idx + 1 = Len(last.dataloader)
    IN  /\ last.op = "fit"
        /\ last.epoch < NumEpochs
        /\ projection' = state_dict
        /\ last' = [last EXCEPT
                      !.loss = "finite",
                      !.batch_idx = IF last_batch THEN 0 ELSE @ + 1,
                      !.epoch = IF last_batch THEN @ + 1 ELSE @]
        /\ image_database' = EmbedAll(image_database, state_dict, FitPaths,
                                      last.files)
        /\ UNCHANGED <<disk, faults, trainings>>

\* one pass through the body of the inner loop (lines 43-71): the loss is
\* computed, loss.backward() and optimizer.step() follow without a test of
\* the loss, and Adam leaves the parameters at some value
FitBatch(state_dict) ==
    LET batch == last.dataloader[last.batch_idx + 1]
        last_batch == last.batch_idx + 1 = Len(last.dataloader)
    IN  /\ last.op = "fit"
        /\ last.epoch < NumEpochs
        /\ projection' = state_dict
        /\ last' = [last EXCEPT
                      !.loss = IF LossIsFinite(projection, last.files, batch)
                               THEN "finite" ELSE "nan",
                      !.batch_idx = IF last_batch THEN 0 ELSE @ + 1,
                      !.epoch = IF last_batch THEN @ + 1 ELSE @]
        /\ UNCHANGED <<image_database, disk, faults, trainings>>

\* lines 75-91 once the epochs are over: every listed file is embedded again
\* with the parameters as they are, the database is saved, the model
\* returned
FitRefresh ==
    /\ last.op = "fit"
    /\ last.epoch = NumEpochs
    /\ ~last.returned
    /\ image_database' = EmbedAll(image_database, projection, FitPaths,
                                  last.files)
    /\ disk' = Pickle(image_database')
    /\ last' = [last EXCEPT !.returned = TRUE]
    /\ UNCHANGED <<projection, faults, trainings>>

FitNext ==
    \/ \E state_dict \in StateDicts : FitBatch(state_dict)
    \/ FitRefresh

FitSpec == FitInit /\ [][FitNext]_vars

\* ---- add_image beside a reader -------------------------------------------
\* One thread runs add_image calls (default compute_embedding, files that
\* open, hash and embed, a disk that works), statement by statement; another
\* thread reads the database the way find_similar_images (lines 77, 88) and
\* the pair miner do.  The model object has no lock, so a read can fall
\* between any two statements of add_image.  pc is the line the writer is
\* about to execute; a read is taken as one look at the database.
ThreadsInit ==
    /\ image_database = EmptyDatabase
    /\ projection \in ProjIds
    /\ disk = <<>>
    /\ last = [op |-> "threads", pc |-> 52, call |-> <<>>, seen |-> <<>>]
    /\ faults = 0
    /\ trainings = 0

\* lines 52-53: Image.open and get_image_hash, into locals
AddImageLine52(image_path, image) ==
    /\ last.op = "threads"
    /\ last.pc = 52
    /\ last' = [last EXCEPT
                  !.pc = 56,
                  !.call = <<[image_path |-> image_path, image |-> image,
                              image_hash |-> get_image_hash(image)]>>]
    /\ UNCHANGED <<image_database, projection, disk, faults, trainings>>

\* line 56: self.image_database["hashes"][image_path] = image_hash
AddImageLine56 ==
    /\ last.op = "threads"
    /\ last.pc = 56
    /\ image_database'
         = [image_database EXCEPT
              !.hashes = DictSet(@, last.call[1].image_path,
                                 last.call[1].image_hash)]
    /\ last' = [last EXCEPT !.pc = 57]
    /\ UNCHANGED <<projection, disk, faults, trainings>>

\* lines 57-58: the path is appended unless the list holds it
AddImageLine57 ==
    /\ last.op = "threads"
    /\ last.pc = 57
    /\ image_database'
         = [image_database EXCEPT
              !.paths = IF last.call[1].image_path \in Range(@) THEN @
                        ELSE Append(@, last.call[1].image_path)]
    /\ last' = [last EXCEPT !.pc = 62]
    /\ UNCHANGED <<projection, disk, faults, trainings>>

\* lines 61-63: the embedding is computed and stored
AddImageLine62 ==
    /\ last.op = "threads"
    /\ last.pc = 62
    /\ image_database'
         = StoreEmbedding(image_database, last.call[1].image_path,
                          get_image_embedding(projection, last.call[1].image))
    /\ last' = [last EXCEPT !.pc = 65]
    /\ UNCHANGED <<projection, disk, faults, trainings>>

\* lines 65-66: save_database, return True
AddImageLine65 ==
    /\ last.op = "threads"
    /\ last.pc = 65
    /\ disk' = Pickle(image_database)
    /\ last' = [last EXCEPT !.pc = 52, !.call = <<>>]
    /\ UNCHANGED <<image_database, projection, faults, trainings>>

\* the other thread looks at the database
Read ==
    /\ last.op = "threads"
    /\ last' = [last EXCEPT !.seen = <<image_database>>]
    /\ UNCHANGED <<image_database, projection, disk, faults, trainings>>

ThreadsNext ==
    \/ \E image_path \in ImagePaths, image \in [pix : Pixels, kind : {"rgb"}] :
          AddImageLine52(image_path, image)
    \/ AddImageLine56
    \/ AddImageLine57
    \/ AddImageLine62
    \/ AddImageLine65
    \/ Read

ThreadsSpec == ThreadsInit /\ [][ThreadsNext]_vars

\* ---- what the last read returned ------------------------------------------
Queried == last.op = "find_similar_images" /\ ~last.raised

QueryResult ==
    find_similar_images(image_database, projection, last.query_image,
                        last.top_k)

Ranked == Queried /\ QueryResult.branch = "ranked"

Exact == Queried /\ QueryResult.branch = "exact"

Mined == last.op = "generate_pairs"

MinedPairs == generate_pairs(image_database, last.image_paths)

Keys(items) == [i \in DOMAIN items |-> items[i][1]]

IndexOf(s, x) == CHOOSE i \in DOMAIN s : s[i] = x

NoDuplicates(s) == \A i, j \in DOMAIN s : s[i] = s[j] => i = j

\* the stored keys whose hash is the hash of the query
HashMates(query_image) ==
    {image_database.hashes[i][1] : i \in
        {j \in DOMAIN image_database.hashes :
            image_database.hashes[j][2] = get_image_hash(query_image)}}

\* ---- C1 -------------------------------------------------------------------
\* C1: when some stored hash equals the hash of the query, the query returns
\* exactly the keys stored with that hash, each once and with score 1.0, by
\* the exact branch, whatever top_k and the embeddings are.
C1_ExactMatchPrecedence ==
    (Queried /\ HashMates(last.query_image) # {}) =>
        LET r == QueryResult
        IN  /\ r.branch = "exact"
            /\ Range(Keys(r.items)) = HashMates(last.query_image)
            /\ NoDuplicates(Keys(r.items))
            /\ \A i \in DOMAIN r.items : r.items[i][2] = One

\* two keys share the hash of the query, their embeddings differ, and top_k
\* is smaller than the number of matches
C1_Witness ==
    /\ Exact
    /\ Len(QueryResult.items) = 2
    /\ last.top_k < 2
    /\ Len(image_database.embeddings) = 2
    /\ image_database.embeddings[1][2] # image_database.embeddings[2][2]

\* ---- C2 -------------------------------------------------------------------
\* C2: the ranked results are in non-increasing score order, and of two
\* results with equal score the one earlier in the paths list comes first.
C2_TopKOrdering ==
    Ranked =>
        LET items == QueryResult.items
            paths == image_database.paths
        IN  \A i, j \in DOMAIN items :
                i < j =>
                    /\ ScoreGeq(items[i][2], items[j][2])
                    /\ (/\ ScoreEq(items[i][2], items[j][2])
                        /\ items[i][1] \in Range(paths)
                        /\ items[j][1] \in Range(paths))
                       => IndexOf(paths, items[i][1]) < IndexOf(paths, items[j][1])

\* ---- C3 -------------------------------------------------------------------
\* C3: add_image for a path already in the store leaves the paths list as it
\* was; once the hash is computed the stored hash is that of the call, and
\* when the call computes an embedding the stored embedding is that of the
\* call.
C3_IdempotentUpsert ==
    [][\A image_path \in Range(image_database.paths), image \in Images,
          compute_embedding \in BOOLEAN, save_ok \in BOOLEAN :
          (/\ last'.op = "add_image"
           /\ AddImage(image_path, image, compute_embedding, save_ok))
          => /\ image_database'.paths = image_database.paths
             /\ ~(OpenRaises(image) \/ HashRaises(image))
                => DictGet(image_database'.hashes, image_path)
                     = get_image_hash(image)
             /\ (compute_embedding
                 /\ AddImageReachesSave(image, compute_embedding))
                => DictGet(image_database'.embeddings, image_path)
                     = get_image_embedding(projection, image)]_vars

\* an add_image for a stored path has returned True
C3_Witness ==
    /\ last.op = "add_image"
    /\ last.existed
    /\ last.returned
    /\ Len(image_database.paths) = 2
    /\ Len(image_database.embeddings) = 2

\* ---- C4 -------------------------------------------------------------------
\* C4: the paths list holds no path twice and holds exactly the keys of the
\* hashes map.
C4_PathsMatchHashes ==
    /\ NoDuplicates(image_database.paths)
    /\ NoDuplicates(Keys(image_database.hashes))
    /\ Range(image_database.paths) = DictKeys(image_database.hashes)

\* a training run in which something failed has ended with two stored paths
C4_Witness ==
    /\ last.op \in {"train_model", "add_new_images_and_retrain"}
    /\ ~last.returned
    /\ faults > 0
    /\ Len(image_database.paths) = 2

\* ---- C5 -------------------------------------------------------------------
\* C5: no mined pair pairs a key with itself, whatever the candidate list: a
\* key is not compared with itself, so a list that holds one embedded key
\* only, once or several times, is mined without any similarity being
\* computed and gives no pair.
C5_NoSelfPairs ==
    Mined =>
        LET mined == MinedPairs
            embedded == {k \in Range(last.image_paths) :
                            DictHas(image_database.embeddings, k)}
        IN  /\ \A i \in DOMAIN mined.pairs :
                  mined.pairs[i][1] # mined.pairs[i][2]
            /\ Cardinality(embedded) <= 1
                  => ~mined.raised /\ mined.pairs = <<>>

\* ---- C6 -------------------------------------------------------------------
\* C6: every stored embedding is a vector divided by its own, non-zero,
\* Euclidean norm.
UnitNorm(e) == e.den2 > 0 /\ Dot(e.num, e.num) = e.den2

C6_Normalized ==
    \A i \in DOMAIN image_database.embeddings :
        UnitNorm(image_database.embeddings[i][2])

\* the bulk embedding pass of train_model has stored two embeddings
C6_Witness ==
    /\ last.op = "train_model"
    /\ last.mined = "raised"
    /\ Len(image_database.embeddings) = 2
    /\ \E i \in DOMAIN image_database.embeddings :
          image_database.embeddings[i][2].den2 > 1

C8_ExactInInsertionOrder ==
    Exact =>
        Keys(QueryResult.items)
          = SelectSeq(image_database.paths,
                      LAMBDA k : k \in HashMates(last.query_image))

\* two exact matches, stored in the order 2, 1, the first of them upserted
C8_Witness ==
    /\ Exact
    /\ Keys(QueryResult.items) = <<2, 1>>

C10_NoEmbeddingNotRanked ==
    Ranked =>
        \A k \in DictKeys(image_database.hashes) :
            ~DictHas(image_database.embeddings, k)
            => k \notin Range(Keys(QueryResult.items))

\* a ranking with room to spare over a store that holds a hash-only path
C10_Witness ==
    /\ Ranked
    /\ Len(image_database.hashes) = 2
    /\ Len(image_database.embeddings) = 1
    /\ last.top_k = 2
    /\ Len(QueryResult.items) = 1

\* ---- C11 ------------------------------------------------------------------
\* C11: a query on a store with no hashes and no embeddings, with an image
\* the processor and the PNG encoder accept, does not raise and returns the
\* empty sequence.
C11_EmptyStoreQuery ==
    [][(/\ last'.op = "find_similar_images"
        /\ image_database.hashes = <<>>
        /\ image_database.embeddings = <<>>)
       => \A query_image \in Images \ {Corrupt}, top_k \in 0..MaxTopK :
             (Query(query_image, top_k) /\ ~QueryRaises(query_image))
             => /\ ~last'.raised
                /\ find_similar_images(image_database', projection',
                                       query_image, top_k).items = <<>>]_vars

\* a query asking for two results has returned from an empty store
C11_Witness ==
    /\ Queried
    /\ image_database = EmptyDatabase
    /\ last.top_k = 2
    /\ QueryResult.items = <<>>

\* ---- what the last pair mining returned ----------------------------------
\* a candidate list in which no key occurs twice has been mined
MinedKeys == Mined /\ NoDuplicates(last.image_paths)

Embedded(k) == DictHas(image_database.embeddings, k)

\* the anchors: the candidates that have an embedding
Anchors == {k \in Range(last.image_paths) : Embedded(k)}

\* the other candidates of anchor a that have an embedding
Others(a) == Anchors \ {a}

PairScore(a, b) ==
    MatMul(DictGet(image_database.embeddings, a),
           DictGet(image_database.embeddings, b))

\* the positions of the pairs of anchor a with the given label
Labelled(pairs, a, label) ==
    {i \in DOMAIN pairs : pairs[i][1] = a /\ pairs[i][3] = label}

Partners(pairs, a, label) == {pairs[i][2] : i \in Labelled(pairs, a, label)}

\* every anchor has min(pos, n) label-1 and min(neg, n) label-0 pairs
PairCounts(pairs, pos, neg) ==
    \A a \in Anchors :
        /\ Cardinality(Labelled(pairs, a, 1)) = Min(pos, Cardinality(Others(a)))
        /\ Cardinality(Labelled(pairs, a, 0)) = Min(neg, Cardinality(Others(a)))

\* the label-1 partners are the most similar, the label-0 partners the least
\* similar of the other candidates, each partner once per label
PartnersAreExtremes(pairs) ==
    \A a \in Anchors :
        LET most == Partners(pairs, a, 1)
            least == Partners(pairs, a, 0)
        IN  /\ most \subseteq Others(a)
            /\ least \subseteq Others(a)
            /\ Cardinality(most) = Cardinality(Labelled(pairs, a, 1))
            /\ Cardinality(least) = Cardinality(Labelled(pairs, a, 0))
            /\ \A b \in most, c \in Others(a) \ most :
                  ScoreGeq(PairScore(a, b), PairScore(a, c))
            /\ \A b \in least, c \in Others(a) \ least :
                  ScoreGeq(PairScore(a, c), PairScore(a, b))

\* ---- C12 ------------------------------------------------------------------
\* C12: the mining returns, and whatever numbers of positive and negative
\* pairs per anchor are requested, each anchor with n other embedded
\* candidates gets min(posPerAnchor, n) label-1 pairs with its most similar
\* and min(negPerAnchor, n) label-0 pairs with its least similar candidates.
C12_PairCountsAsRequested ==
    MinedKeys =>
        LET mined == MinedPairs
        IN  /\ ~mined.raised
            /\ PartnersAreExtremes(mined.pairs)
            /\ \A posPerAnchor \in 1..PosPerAnchor,
                  negPerAnchor \in 1..NegPerAnchor :
                  PairCounts(mined.pairs, posPerAnchor, negPerAnchor)

\* ---- C13 ------------------------------------------------------------------
\* C13: for an anchor with n other embedded candidates, the candidates that
\* are both among its three most and its three least similar are paired with
\* it under both labels, nothing being removed: there are
\* min(3, n) + min(3, n) - n of them when n < 3 + 3, at least one unless
\* n = 0, and none when n >= 3 + 3.
C13_SliceOverlap ==
    MinedKeys =>
        LET pairs == MinedPairs.pairs
        IN  \A a \in Anchors :
                LET n == Cardinality(Others(a))
                    both == Partners(pairs, a, 1) \cap Partners(pairs, a, 0)
                    all == {i \in DOMAIN pairs : pairs[i][1] = a}
                IN  /\ Cardinality(all)
                         = Min(PosPerAnchor, n) + Min(NegPerAnchor, n)
                    /\ Cardinality(both)
                         = Max(0, Min(PosPerAnchor, n) + Min(NegPerAnchor, n) - n)
                    /\ (0 < n /\ n < PosPerAnchor + NegPerAnchor) => both # {}
                    /\ n >= PosPerAnchor + NegPerAnchor => both = {}

\* ---- C14 ------------------------------------------------------------------
\* C14: the mining of a candidate list gives a sequence that holds the pairs
\* of every anchor that has another embedded candidate, anchor by anchor in
\* the order of the candidate list, and for each anchor the label-1 pairs
\* before the label-0 pairs.
C14_GroupedByAnchor ==
    MinedKeys =>
        LET mined == MinedPairs
            pairs == mined.pairs
            at(i) == IndexOf(last.image_paths, pairs[i][1])
        IN  /\ ~mined.raised
            /\ \A a \in Anchors :
                  Others(a) # {} => \E i \in DOMAIN pairs : pairs[i][1] = a
            /\ \A i, j \in DOMAIN pairs :
                  i < j => /\ at(i) <= at(j)
                           /\ at(i) = at(j) => pairs[i][3] >= pairs[j][3]

\* ---- C15 ------------------------------------------------------------------
\* C15: candidates equally similar to the anchor are taken in the order in
\* which their keys were stored: the mining returns, of tied candidates the
\* ones stored earlier are the label-1 partners and the ones stored later the
\* label-0 partners, and among the pairs of one anchor and one label a tied
\* partner stored earlier comes first.
C15_TiesByInsertionOrder ==
    MinedKeys =>
        LET mined == MinedPairs
            pairs == mined.pairs
            stored(k) == IndexOf(image_database.paths, k)
            tied(a, b, c) == ScoreEq(PairScore(a, b), PairScore(a, c))
        IN  /\ ~mined.raised
            /\ \A i, j \in DOMAIN pairs :
                  (/\ i < j
                   /\ pairs[i][1] = pairs[j][1]
                   /\ pairs[i][3] = pairs[j][3]
                   /\ tied(pairs[i][1], pairs[i][2], pairs[j][2]))
                  => stored(pairs[i][2]) < stored(pairs[j][2])
            /\ \A a \in Anchors :
                  /\ \A b \in Partners(pairs, a, 1),
                        c \in Others(a) \ Partners(pairs, a, 1) :
                        tied(a, b, c) => stored(b) < stored(c)
                  /\ \A b \in Partners(pairs, a, 0),
                        c \in Others(a) \ Partners(pairs, a, 0) :
                        tied(a, b, c) => stored(c) < stored(b)

\* ---- C16 ------------------------------------------------------------------
\* C16: a candidate without an embedding, or with no other embedded
\* candidate beside it, is an anchor that gives no pair and raises nothing;
\* when every candidate is such an anchor the mining returns the empty
\* sequence; and a candidate without an embedding is the partner of no pair.
C16_UnembeddedSkipped ==
    MinedKeys =>
        LET mined == MinedPairs
        IN  /\ \A i \in DOMAIN last.image_paths :
                  (~Embedded(last.image_paths[i])
                     \/ Others(last.image_paths[i]) = {})
                  => AnchorPairs(image_database.embeddings,
                                 last.image_paths, i)
                       = [raised |-> FALSE, pairs |-> <<>>]
            /\ (\A k \in Range(last.image_paths) :
                   ~Embedded(k) \/ Others(k) = {})
                  => ~mined.raised /\ mined.pairs = <<>>
            /\ \A i \in DOMAIN mined.pairs : Embedded(mined.pairs[i][2])

\* two candidates of which the second has no embedding: the mining returns
\* without a pair
C16_Witness ==
    /\ MinedKeys
    /\ last.image_paths = <<1, 2>>
    /\ Embedded(1)
    /\ ~Embedded(2)
    /\ MinedPairs = [raised |-> FALSE, pairs |-> <<>>]

C18_EmbeddingNeedsKey ==
    [][\A k \in DictKeys(image_database'.embeddings) :
          (\/ ~DictHas(image_database.embeddings, k)
           \/ DictGet(image_database'.embeddings, k)
                # DictGet(image_database.embeddings, k))
          => /\ DictHas(image_database'.hashes, k)
             /\ k \in Range(image_database'.paths)]_vars

\* ---- C19 ------------------------------------------------------------------
\* C19: a train_model or add_new_images_and_retrain call whose mined pair
\* set is empty returns normally.
C19_EmptyPairSetReturns ==
    (/\ last.op \in {"train_model", "add_new_images_and_retrain"}
     /\ last.mined = "empty")
    => last.returned

IsPrefix(s, t) == Len(s) <= Len(t) /\ SubSeq(t, 1, Len(s)) = s

C24_AppendOnly ==
    [][last'.op \in {"add_image", "train_model", "add_new_images_and_retrain"}
       => /\ IsPrefix(image_database.paths, image_database'.paths)
          /\ \A k \in Range(image_database.paths) :
                DictHas(image_database'.hashes, k)]_vars

\* train_model has listed key 1 and key 2 on a store that held key 2 only
C24_Witness ==
    /\ last.op = "train_model"
    /\ image_database.paths = <<2, 1>>
    /\ DictKeys(image_database.hashes) = {1, 2}

\* ---- C25 ------------------------------------------------------------------
\* C25: a find_similar_images call, whichever way it ends, leaves the paths
\* list, the hashes map, the embeddings map and the database file as they
\* were.
C25_QueryReadsOnly ==
    [][last'.op = "find_similar_images"
       => /\ image_database'.paths = image_database.paths
          /\ image_database'.hashes = image_database.hashes
          /\ image_database'.embeddings = image_database.embeddings
          /\ disk' = disk]_vars

\* a query has ranked the two embeddings of a saved store that has no hash
\* equal to the hash of the query
C25_Witness ==
    /\ Ranked
    /\ Len(QueryResult.items) = 2
    /\ image_database.hashes # <<>>
    /\ disk = Pickle(image_database)

\* ---- C26 ------------------------------------------------------------------
\* C26: an add_image call that returns False leaves the paths list, the
\* hashes map and the embeddings map as they were.
C26_FailedAddChangesNothing ==
    [][(last'.op = "add_image" /\ ~last'.returned)
       => image_database' = image_database]_vars

\* ---- C27 ------------------------------------------------------------------
\* C27: every key of the embeddings map is a key of the hashes map and an
\* entry of the paths list.
C27_EmbeddedKeysAreStored ==
    \A k \in DictKeys(image_database.embeddings) :
        /\ DictHas(image_database.hashes, k)
        /\ k \in Range(image_database.paths)

\* ---- C28 ------------------------------------------------------------------
\* C28: when add_image, train_model or add_new_images_and_retrain has ended,
\* the database a new model would load from the database file is the
\* database in memory.
C28_DiskMatchesMemory ==
    last.op \in {"add_image", "train_model", "add_new_images_and_retrain"}
    => LoadDatabase(disk) = image_database

\* ---- C30 ------------------------------------------------------------------
\* C30: an add_new_images_and_retrain call in which add_image returned True
\* for no file of the new folder goes past the training and the refresh and
\* returns, with the projection and the embeddings map as they were before
\* the call.
C30_NothingAddedNothingChanged ==
    [][(/\ last'.op = "add_new_images_and_retrain"
        /\ last'.mined = "none")
       => /\ last'.returned
          /\ projection' = projection
          /\ image_database'.embeddings = image_database.embeddings]_vars

\* ---- C29 ------------------------------------------------------------------
\* C29: when a query ranks by embedding, every stored embedding is one that
\* the projection parameters used for the query embedding give for some
\* image.
C29_OneProjection ==
    Ranked =>
        \A i \in DOMAIN image_database.embeddings :
            \E image \in Images :
                /\ ~EmbeddingRaises(image)
                /\ image_database.embeddings[i][2]
                     = get_image_embedding(projection, image)

C23_EpochsLeaveStore ==
    [][(last.op = "fit" /\ ~last'.returned)
       => /\ image_database' = image_database
          /\ disk' = disk]_vars

\* both epochs are over, the projection is not the one that gave the stored
\* embeddings, and the refresh has not run yet
C23_Witness ==
    /\ last.op = "fit"
    /\ last.epoch = NumEpochs
    /\ ~last.returned
    /\ StoredBefore \notin DictKeys(image_database.embeddings)
    /\ \E i \in DOMAIN image_database.embeddings :
          image_database.embeddings[i][2]
            # get_image_embedding(projection,
                                  last.files[image_database.embeddings[i][1]])

\* ---- C21 ------------------------------------------------------------------
\* C21: in the database as a reader sees it beside a running add_image,
\* every key of the hashes map is in the paths list, and the embedding of a
\* key is the embedding of the image its hash is the hash of.
WholeItems(db, proj) ==
    \A i \in DOMAIN db.hashes :
        LET k == db.hashes[i][1]
            hashed == [pix |-> db.hashes[i][2][2], kind |-> "rgb"]
        IN  /\ k \in Range(db.paths)
            /\ DictHas(db.embeddings, k)
                  => DictGet(db.embeddings, k) = get_image_embedding(proj, hashed)

C21_NoHalfUpdatedItem ==
    last.op = "threads" =>
        \A n \in DOMAIN last.seen : WholeItems(last.seen[n], projection)
====
